---- MODULE Spec2Model ----
(***************************************************************************)
(* Day distribution (distributeJobsAcrossDays) and time layout             *)
(* (scheduleOptimizedJobs, roundToQuarterHour) of the route optimisation   *)
(* server, src/unnamed/part_000.                                           *)
(*                                                                         *)
(* Locations are points of one meridian, named by their distance in km     *)
(* from a reference point: for two such points the haversine formula of    *)
(* calculateDistance gives the difference of the two numbers.              *)
(***************************************************************************)
EXTENDS Integers, Sequences, FiniteSets

VARIABLES
    jobs,               \* distributeJobsAcrossDays: the argument `jobs`
    maxJobsPerDay,      \* distributeJobsAcrossDays: the argument `maxJobsPerDay`
    distPc,             \* position in distributeJobsAcrossDays
    prioritizedJobs,    \* the sorted copy of the jobs
    walkIdx,            \* number of jobs the for-of loop has consumed
    days,               \* the closed buckets
    currentDay,         \* the open bucket of the greedy walk
    currentDayDuration, \* its running minutes
    rebIdx,             \* loop variable i of the balancing loop (0-based)
    moved,              \* log of the balancing loop: <<i, id of the job moved>>
    returned,           \* the value returned
    optimizedJobs,      \* scheduleOptimizedJobs: the argument `optimizedJobs`
    destinations,       \* the argument `destinations`, as the list of its jobIds
    routingDate,        \* the argument `routingDate`, <<>> when absent
    now,                \* the clock: what new Date() returns
    distanceMatrix,     \* the entries of the argument `distanceMatrix` read so far
    schedPc,            \* position in scheduleOptimizedJobs
    baseFrom,           \* which branch of lines 277-288 set baseDate
    currentTime,        \* the time cursor
    schedIdx,           \* loop variable i (0-based)
    scheduledJobs,      \* the jobs being laid out
    travelLog,          \* per leg: <<the matrix element looked up, bufferMinutes>>
    \* the route handlers; every variable but env, outstanding and overlapped is
    \* a sequence with one entry per request being handled
    env,                \* process.env
    request,            \* req.body and the route
    hPc,                \* position of the handler
    jobsByDay,          \* const jobsByDay
    dayIndex,           \* let dayIndex
    dayLocals,          \* the constants of the loop body
    optimizedDays,      \* const optimizedDays
    responses,          \* the responses sent
    calls,              \* per request: the requests sent to the two services, in order
    outstanding,        \* the requests not yet settled
    plannerRuns,        \* how often distributeJobsAcrossDays was called
    failures,           \* per request: the days whose step threw, with the message
    answers,            \* per request: what the two services answered, in order
    overlapped          \* an answer came in while another request was outstanding

distVars == <<jobs, maxJobsPerDay, distPc, prioritizedJobs, walkIdx, days,
              currentDay, currentDayDuration, rebIdx, moved, returned>>

schedVars == <<optimizedJobs, destinations, routingDate, now,
               distanceMatrix, schedPc, baseFrom, currentTime, schedIdx,
               scheduledJobs, travelLog>>

handlerVars == <<env, request, hPc, jobsByDay, dayIndex, dayLocals,
                 optimizedDays, responses, calls, outstanding, plannerRuns,
                 failures, answers, overlapped>>

-----------------------------------------------------------------------------
(* Bounds of the model *)

MaxJobs == 3        \* longest list of jobs of any type, duration and location
MaxPlainJobs == 5   \* longest list of jobs of one type
MaxPerDay == 3      \* largest maxJobsPerDay
MaxTypedJobs == 3   \* longest list of jobs of the four kinds of type
MaxSpreadJobs == 5  \* longest list of like jobs at four places
MaxSchedJobs == 2   \* longest list laid out by scheduleOptimizedJobs
MaxReqJobs == 9     \* longest list of a request that passes validation
MaxPairJobs == 1    \* longest one-day list of a request handled next to another one

(* Program constants *)

maxDayDuration == 480
NearKm == 15
OutlierKm == 10
DefaultTravelMinutes == 15
MinBuffer == 15
BufferChoices == 16
DefaultJobMinutes == 60
JobsPerDay == 7
MaxJobsPerRequest == 20

-----------------------------------------------------------------------------
(* Inputs *)

JobTypes == {"Job on site", "Task"}
PlainTypes == {"Task"}
DistDurations == {[days |-> 0, hours |-> 0, minutes |-> 0],
                  [days |-> 0, hours |-> 4, minutes |-> 10],
                  [days |-> 0, hours |-> 8, minutes |-> 20]}
PlainDurations == {[days |-> 0, hours |-> 0, minutes |-> 0],
                   [days |-> 0, hours |-> 4, minutes |-> 10]}
Locations == {0, 12, 40}
\* the three types of the priority table and a type that is not in it
AllTypes == {"Job on site", "Quote inspection", "Task", "Other"}
ShortDurations == {[days |-> 0, hours |-> 0, minutes |-> 0],
                   [days |-> 0, hours |-> 0, minutes |-> 30]}
PackTypes == {"Quote inspection", "Other"}
PackDurations == {[days |-> 0, hours |-> 0, minutes |-> 0],
                  [days |-> 0, hours |-> 0, minutes |-> 30],
                  [days |-> 0, hours |-> 7, minutes |-> 30]}
PackLocations == {0, 40}
\* places nearer to and further from each other than the 10 km of the
\* balancing loop and the 15 km of the walk
SpreadLocations == {0, 8, 12, 40}

\* a job of a request; <<>> stands for null
Job(id, t, d, l, sd) ==
    [id |-> id, type |-> t, duration |-> d, loc |-> l, startDate |-> sd,
     endDate |-> <<>>, travelTimeToNext |-> <<>>]

\* a job as the planner reads it; ids are the positions in the request
DistJob(id, t, d, l) == Job(id, t, d, l, <<>>)

-----------------------------------------------------------------------------
(* Helpers *)

Abs(x) == IF x < 0 THEN -x ELSE x

\* job.location without latitude/longitude: the planner reads undefined, and
\* every distance computed from it is NaN
NoLatLng == -1
\* a job without a location object
NoLocation == -2
NaN == -1

calculateDistance(a, b) == IF a = NoLatLng \/ b = NoLatLng THEN NaN ELSE Abs(a - b)

\* x + y of two distances or NaN
AddDistance(x, y) == IF x = NaN \/ y = NaN THEN NaN ELSE x + y

\* !job.location || !job.location.latitude || !job.location.longitude
MissingCoordinates(job) == job.loc \in {NoLatLng, NoLocation}

typePriority(t) ==
    CASE t = "Job on site" -> 3
      [] t = "Quote inspection" -> 2
      [] t = "Task" -> 1
      [] OTHER -> 1

totalDuration(job) == job.duration.hours * 60 + job.duration.minutes

\* jobDuration = job.totalDuration || 60
jobDuration(job) ==
    IF totalDuration(job) = 0 THEN DefaultJobMinutes ELSE totalDuration(job)

\* the comparator of the sort: negative when a goes before b
comparePriority(a, b) ==
    IF typePriority(a.type) # typePriority(b.type)
    THEN typePriority(b.type) - typePriority(a.type)
    ELSE totalDuration(b) - totalDuration(a)

RECURSIVE InsertSorted(_, _)
InsertSorted(s, x) ==
    IF s = <<>> THEN <<x>>
    ELSE IF comparePriority(s[Len(s)], x) <= 0
         THEN Append(s, x)
         ELSE Append(InsertSorted(SubSeq(s, 1, Len(s) - 1), x), s[Len(s)])

\* Array.prototype.sort with the comparator (a stable sort)
RECURSIVE SortJobs(_)
SortJobs(s) ==
    IF s = <<>> THEN <<>>
    ELSE InsertSorted(SortJobs(SubSeq(s, 1, Len(s) - 1)), s[Len(s)])

RECURSIVE SumDistance(_, _)
SumDistance(job, others) ==
    IF others = <<>> THEN 0
    ELSE AddDistance(calculateDistance(job.loc, others[1].loc),
                     SumDistance(job, Tail(others)))

RECURSIVE SumMinutes(_)
SumMinutes(s) == IF s = <<>> THEN 0 ELSE jobDuration(s[1]) + SumMinutes(Tail(s))

RECURSIVE FilterOutId(_, _)
FilterOutId(s, id) ==
    IF s = <<>> THEN <<>>
    ELSE IF s[1].id # id THEN <<s[1]>> \o FilterOutId(Tail(s), id)
         ELSE FilterOutId(Tail(s), id)

-----------------------------------------------------------------------------
(* distributeJobsAcrossDays *)

DistInit ==
    /\ \/ \E n \in 1..MaxJobs :
            \E ts \in [1..n -> JobTypes], ds \in [1..n -> DistDurations],
               ls \in [1..n -> Locations] :
               jobs = [k \in 1..n |-> DistJob(k, ts[k], ds[k], ls[k])]
       \/ \E n \in 1..MaxPlainJobs :
            \E ts \in [1..n -> PlainTypes], ds \in [1..n -> PlainDurations],
               ls \in [1..n -> Locations] :
               jobs = [k \in 1..n |-> DistJob(k, ts[k], ds[k], ls[k])]
    /\ maxJobsPerDay \in 1..MaxPerDay
    /\ distPc = "call"
    /\ prioritizedJobs = <<>>
    /\ walkIdx = 0
    /\ days = <<>>
    /\ currentDay = <<>>
    /\ currentDayDuration = 0
    /\ rebIdx = 0
    /\ moved = <<>>
    /\ returned = <<>>

\* lists of every type with short durations at one place, and lists of two
\* types with short and long durations at two places
WalkInit ==
    /\ \/ \E n \in 1..MaxTypedJobs :
            \E ts \in [1..n -> AllTypes], ds \in [1..n -> ShortDurations] :
               jobs = [k \in 1..n |-> DistJob(k, ts[k], ds[k], 0)]
       \/ \E n \in 1..MaxTypedJobs :
            \E ts \in [1..n -> PackTypes], ds \in [1..n -> PackDurations],
               ls \in [1..n -> PackLocations] :
               jobs = [k \in 1..n |-> DistJob(k, ts[k], ds[k], ls[k])]
    /\ maxJobsPerDay \in 1..MaxPerDay
    /\ distPc = "call"
    /\ prioritizedJobs = <<>>
    /\ walkIdx = 0
    /\ days = <<>>
    /\ currentDay = <<>>
    /\ currentDayDuration = 0
    /\ rebIdx = 0
    /\ moved = <<>>
    /\ returned = <<>>

\* lists of half-hour tasks at the four places
SpreadInit ==
    /\ \E n \in 1..MaxSpreadJobs :
          \E ls \in [1..n -> SpreadLocations] :
             jobs = [k \in 1..n |->
                       DistJob(k, "Task", [days |-> 0, hours |-> 0, minutes |-> 30], ls[k])]
    /\ maxJobsPerDay \in 1..MaxPerDay
    /\ distPc = "call"
    /\ prioritizedJobs = <<>>
    /\ walkIdx = 0
    /\ days = <<>>
    /\ currentDay = <<>>
    /\ currentDayDuration = 0
    /\ rebIdx = 0
    /\ moved = <<>>
    /\ returned = <<>>

\* mutant: the shortcut taken only below the cap
FitsInOneDayStrict(js, m) == Len(js) < m

\* if (jobs.length <= maxJobsPerDay) return [jobs]
FitsInOneDay(js, m) == Len(js) <= m

DistShortcut ==
    /\ distPc = "call"
    /\ FitsInOneDay(jobs, maxJobsPerDay)
    /\ returned' = <<jobs>>
    /\ distPc' = "returned"
    /\ UNCHANGED <<jobs, maxJobsPerDay, prioritizedJobs, walkIdx, days,
                   currentDay, currentDayDuration, rebIdx, moved>>
    /\ UNCHANGED <<schedVars, handlerVars>>

DistSort ==
    /\ distPc = "call"
    /\ ~FitsInOneDay(jobs, maxJobsPerDay)
    /\ prioritizedJobs' = SortJobs(jobs)
    /\ distPc' = "walk"
    /\ UNCHANGED <<jobs, maxJobsPerDay, walkIdx, days, currentDay,
                   currentDayDuration, rebIdx, moved, returned>>
    /\ UNCHANGED <<schedVars, handlerVars>>

\* mutant: the distance to the open bucket is not looked at
JoinsWhateverTheDistance(job, cur, curDuration, m) ==
    /\ Len(cur) < m
    /\ curDuration + jobDuration(job) <= maxDayDuration

\* the test that lets `job` join the open bucket
JoinsCurrentDay(job, cur, curDuration, m) ==
    /\ Len(cur) < m
    /\ curDuration + jobDuration(job) <= maxDayDuration
    /\ \/ Len(cur) = 0
       \/ LET sum == SumDistance(job, cur) IN
            sum # NaN /\ sum <= NearKm * Len(cur)

WalkStep ==
    /\ distPc = "walk"
    /\ walkIdx < Len(prioritizedJobs)
    /\ LET job == prioritizedJobs[walkIdx + 1] IN
         IF JoinsCurrentDay(job, currentDay, currentDayDuration, maxJobsPerDay)
         THEN /\ currentDay' = Append(currentDay, job)
              /\ currentDayDuration' = currentDayDuration + jobDuration(job)
              /\ days' = days
         ELSE /\ days' = IF Len(currentDay) > 0 THEN Append(days, currentDay) ELSE days
              /\ currentDay' = <<job>>
              /\ currentDayDuration' = jobDuration(job)
    /\ walkIdx' = walkIdx + 1
    /\ UNCHANGED <<jobs, maxJobsPerDay, distPc, prioritizedJobs, rebIdx, moved,
                   returned>>
    /\ UNCHANGED <<schedVars, handlerVars>>

WalkFinish ==
    /\ distPc = "walk"
    /\ walkIdx = Len(prioritizedJobs)
    /\ days' = IF Len(currentDay) > 0 THEN Append(days, currentDay) ELSE days
    /\ rebIdx' = 0
    /\ distPc' = "balance"
    /\ UNCHANGED <<jobs, maxJobsPerDay, prioritizedJobs, walkIdx, currentDay,
                   currentDayDuration, moved, returned>>
    /\ UNCHANGED <<schedVars, handlerVars>>

\* mutant: the following day's room is not looked at
UnbalancedNoRoomCheck(cur, nxt, m) == 10 * Len(cur) > 8 * m

\* currentDayJobs.length > maxJobsPerDay * 0.8 && nextDayJobs.length < maxJobsPerDay * 0.6
\* (in tenths; the double products compare with a length as the exact ones do
\* for the caps of the model and for the handler's cap of 7)
Unbalanced(cur, nxt, m) ==
    /\ 10 * Len(cur) > 8 * m
    /\ 10 * Len(nxt) < 6 * m

\* the loop over currentDayJobs looking for the job furthest from the others:
\* acc = <<index of jobToMove (0 for null), maxDistance * (length - 1)>>
RECURSIVE FindJobToMove(_, _, _)
FindJobToMove(cur, k, acc) ==
    IF k > Len(cur) THEN acc
    ELSE LET sum == SumDistance(cur[k], FilterOutId(cur, cur[k].id)) IN
         IF Len(cur) > 1 /\ sum # NaN /\ sum > acc[2]
         THEN FindJobToMove(cur, k + 1, <<k, sum>>)
         ELSE FindJobToMove(cur, k + 1, acc)

\* mutant: the furthest job moves however near it is to the others
JobToMoveHoweverNear(ds, i, m) ==
    LET found == FindJobToMove(ds[i + 1], 1, <<0, 0>>) IN
    IF Unbalanced(ds[i + 1], ds[i + 2], m) THEN found[1] ELSE 0

\* index in days[i] of the job the body of the balancing loop moves, 0 for none
JobToMove(ds, i, m) ==
    LET cur == ds[i + 1]
        nxt == ds[i + 2]
        found == FindJobToMove(cur, 1, <<0, 0>>)
    IN  IF /\ Unbalanced(cur, nxt, m)
           /\ found[1] # 0
           /\ found[2] > OutlierKm * (Len(cur) - 1)
        THEN found[1]
        ELSE 0

\* mutant: the moved job is not taken out of its bucket
BalancePairNoRemove(ds, i, m) ==
    LET k == JobToMove(ds, i, m) IN
    IF k # 0 THEN [ds EXCEPT ![i + 2] = <<ds[i + 1][k]>> \o ds[i + 2]] ELSE ds

\* days after the body of the balancing loop for index i (0-based)
BalancePair(ds, i, m) ==
    LET cur == ds[i + 1]
        nxt == ds[i + 2]
        k == JobToMove(ds, i, m)
    IN  IF k # 0
        THEN [ds EXCEPT ![i + 1] = FilterOutId(cur, cur[k].id),
                        ![i + 2] = <<cur[k]>> \o nxt]
        ELSE ds

BalanceStep ==
    /\ distPc = "balance"
    /\ rebIdx < Len(days) - 1
    /\ days' = BalancePair(days, rebIdx, maxJobsPerDay)
    /\ moved' = LET k == JobToMove(days, rebIdx, maxJobsPerDay) IN
                  IF k # 0 THEN Append(moved, <<rebIdx, days[rebIdx + 1][k].id>>)
                  ELSE moved
    /\ rebIdx' = rebIdx + 1
    /\ UNCHANGED <<jobs, maxJobsPerDay, distPc, prioritizedJobs, walkIdx,
                   currentDay, currentDayDuration, returned>>
    /\ UNCHANGED <<schedVars, handlerVars>>

DistReturn ==
    /\ distPc = "balance"
    /\ rebIdx >= Len(days) - 1
    /\ returned' = days
    /\ distPc' = "returned"
    /\ UNCHANGED <<jobs, maxJobsPerDay, prioritizedJobs, walkIdx, days,
                   currentDay, currentDayDuration, rebIdx, moved>>
    /\ UNCHANGED <<schedVars, handlerVars>>

DistNext ==
    \/ DistShortcut
    \/ DistSort
    \/ WalkStep
    \/ WalkFinish
    \/ BalanceStep
    \/ DistReturn

-----------------------------------------------------------------------------
(* Properties of distributeJobsAcrossDays *)

RECURSIVE Flatten(_)
Flatten(ds) == IF ds = <<>> THEN <<>> ELSE ds[1] \o Flatten(Tail(ds))

Occurrences(s, x) == Cardinality({k \in 1..Len(s) : s[k] = x})

\* C1: the returned buckets hold every input job exactly once (none dropped,
\* none in two buckets, none twice in a bucket).
C1_EveryJobExactlyOnce ==
    distPc = "returned" =>
        /\ Len(Flatten(returned)) = Len(jobs)
        /\ \A k \in 1..Len(jobs) : Occurrences(Flatten(returned), jobs[k]) = 1

\* a call that packed several buckets and moved a job in the balancing loop
C1_Witness ==
    /\ distPc = "returned"
    /\ Len(returned) >= 2
    /\ Len(moved) >= 1

\* C2: every returned bucket totals at most 480 minutes unless it holds one
\* single job (whose own duration then exceeds 480), so that an over-long job
\* is alone in its bucket; for short lists and after the balancing loop too.
C2_BucketWithinDailyMinutes ==
    distPc = "returned" =>
        \A b \in 1..Len(returned) :
            SumMinutes(returned[b]) <= maxDayDuration \/ Len(returned[b]) = 1

\* C3: no returned bucket holds more than maxJobsPerDay jobs.
C3_BucketWithinJobCap ==
    distPc = "returned" =>
        \A b \in 1..Len(returned) : Len(returned[b]) <= maxJobsPerDay

\* a bucket received a job from its predecessor and then gave one to its successor
C3_Witness ==
    /\ distPc = "returned"
    /\ \E a, b \in 1..Len(moved) : a < b /\ moved[b][1] = moved[a][1] + 1

\* C4: a list of at most maxJobsPerDay jobs comes back as one bucket holding
\* the jobs in the input order.
C4_ShortListOneBucket ==
    (distPc = "returned" /\ Len(jobs) <= maxJobsPerDay) => returned = <<jobs>>

\* a short list that is out of priority order, over the daily minutes and spread out
C4_Witness ==
    /\ distPc = "returned"
    /\ Len(jobs) = maxJobsPerDay
    /\ Len(jobs) >= 2
    /\ SortJobs(jobs) # jobs
    /\ SumMinutes(jobs) > maxDayDuration
    /\ \E a, b \in 1..Len(jobs) : calculateDistance(jobs[a].loc, jobs[b].loc) > NearKm

-----------------------------------------------------------------------------
(* Dates.  A Date object is its time value, here whole seconds of local time
   since 1970-01-01T00:00:00 in a zone without clock changes; a date string
   is <<y, m, d>> and a timestamp string <<y, m, d, hh, mm, ss>>. *)

\* day number of new Date(year, month - 1, day)
DaysFromCivil(y, m, d) ==
    LET yy == IF m <= 2 THEN y - 1 ELSE y
        era == yy \div 400
        yoe == yy - era * 400
        mp == (m + 9) % 12
        doy == (153 * mp + 2) \div 5 + d - 1
        doe == yoe * 365 + yoe \div 4 - yoe \div 100 + doy
    IN  era * 146097 + doe - 719468

\* <<getFullYear(), getMonth() + 1, getDate()>> of a day number
CivilFromDays(z) ==
    LET zz == z + 719468
        era == zz \div 146097
        doe == zz - era * 146097
        yoe == (doe - doe \div 1460 + doe \div 36524 - doe \div 146096) \div 365
        doy == doe - (365 * yoe + yoe \div 4 - yoe \div 100)
        mp == (5 * doy + 2) \div 153
        d == doy - (153 * mp + 2) \div 5 + 1
        m == IF mp < 10 THEN mp + 3 ELSE mp - 9
        y == yoe + era * 400
    IN  <<IF m <= 2 THEN y + 1 ELSE y, m, d>>

getHours(t) == (t \div 3600) % 24
getMinutes(t) == (t \div 60) % 60
getSeconds(t) == t % 60
setHours(t, h) == t - getHours(t) * 3600 + h * 3600
setMinutes(t, m) == t - getMinutes(t) * 60 + m * 60
setSeconds(t, sec) == t - getSeconds(t) + sec

\* day number of new Date(year, month - 1, day): a year of 0..99 stands for
\* 1900 + year, a day beyond the month's end runs into the following months
NewDate(year, month, day) ==
    DaysFromCivil(IF year \in 0..99 THEN 1900 + year ELSE year, month, day)

\* parseDate: the date part of the string, at local midnight
parseDate(str) == NewDate(str[1], str[2], str[3]) * 86400

\* `${newYear}-${newMonth}-${newDay}` of new Date(year, month - 1, day + daysToAdd)
addDaysToDateString(dateString, daysToAdd) ==
    CivilFromDays(NewDate(dateString[1], dateString[2], dateString[3] + daysToAdd))

\* formatDateLocal: `${year}-${month}-${day}T${hours}:${minutes}:${seconds}.000Z`
formatDateLocal(t) ==
    CivilFromDays(t \div 86400) \o <<getHours(t), getMinutes(t), getSeconds(t)>>

\* mutant: the quarter count is not scaled back to minutes
CeilToQuarterUnscaled(minutes) == (minutes + 14) \div 15

\* Math.ceil(minutes / 15) * 15
CeilToQuarter(minutes) == ((minutes + 14) \div 15) * 15

roundToQuarterHour(date) ==
    LET roundedMinutes == CeilToQuarter(getMinutes(date))
        newDate == setSeconds(setMinutes(date, roundedMinutes), 0)
    IN  IF roundedMinutes = 60
        THEN LET zeroed == setMinutes(newDate, 0)
             IN  setHours(zeroed, getHours(zeroed) + 1)
        ELSE newDate

-----------------------------------------------------------------------------
(* scheduleOptimizedJobs *)

SchedDurations == {[days |-> 0, hours |-> 0, minutes |-> 0],
                   [days |-> 0, hours |-> 0, minutes |-> 50],
                   [days |-> 1, hours |-> 2, minutes |-> 0]}

RoutingDates == {<<2024, 2, 29>>}
FirstJobStartDates == {<<>>, <<2024, 12, 31, 9, 0, 0>>}
ClockTimes == {DaysFromCivil(2025, 6, 15) * 86400 + 14 * 3600 + 26 * 60 + 39}

\* what rows[matrixRowIndex]?.elements[nextJobIndex] can be: no such row, no
\* such element, an element without duration, or duration.value in seconds;
\* a row that has no elements list makes the lookup throw
MatrixElement(status, seconds) == [status |-> status, seconds |-> seconds]
MatrixElements == {MatrixElement("norow", 0), MatrixElement("noelement", 0),
                   MatrixElement("noduration", 0),
                   MatrixElement("duration", 0), MatrixElement("duration", 61),
                   MatrixElement("rowWithoutElements", 0)}
\* stands for the element of a leg whose lookup does not read the matrix
Unread == MatrixElement("unread", 0)

SchedInit ==
    \* POST /optimize-route passes its optional routingDate (absent: <<>>),
    \* POST /optimize-multi-day-route always passes a date
    /\ routingDate \in RoutingDates \cup {<<>>}
    /\ \E n \in 1..MaxSchedJobs :
         \E ds \in [1..n -> SchedDurations], sd \in FirstJobStartDates :
            optimizedJobs = [k \in 1..n |->
                Job(k, "Task", ds[k], 0, IF k = 1 THEN sd ELSE <<>>)]
    \* destinations lists the jobs, or lacks the last one
    /\ \E nd \in {Len(optimizedJobs) - 1, Len(optimizedJobs)} :
         destinations = [k \in 1..nd |-> k]
    /\ now \in ClockTimes
    /\ distanceMatrix = {}
    /\ schedPc = "call"
    /\ baseFrom = "none"
    /\ currentTime = 0
    /\ schedIdx = 0
    /\ scheduledJobs = <<>>
    /\ travelLog = <<>>

\* lines 277-288: <<baseDate, the branch taken>>
BaseDate(rd, js, clock) ==
    IF rd # <<>> THEN <<parseDate(rd), "routingDate">>
    ELSE IF Len(js) > 0 /\ js[1].startDate # <<>>
         THEN <<parseDate(js[1].startDate), "firstJob">>
         ELSE <<clock, "clock">>

\* lines 274-294
SchedStart ==
    /\ schedPc = "call"
    /\ scheduledJobs' = optimizedJobs
    /\ LET base == BaseDate(routingDate, optimizedJobs, now) IN
         /\ baseFrom' = base[2]
         /\ currentTime' = setSeconds(setMinutes(setHours(base[1], 7), 30), 0)
    /\ schedIdx' = 0
    /\ schedPc' = "loop"
    /\ UNCHANGED <<optimizedJobs, destinations, routingDate, now,
                   distanceMatrix, travelLog>>
    /\ UNCHANGED <<distVars, handlerVars>>

\* destinations.findIndex(d => d.jobId === id), 0-based, -1 when absent
findIndex(dests, id) ==
    IF \E k \in 1..Len(dests) : dests[k] = id
    THEN (CHOOSE k \in 1..Len(dests) :
             dests[k] = id /\ \A j \in 1..(k - 1) : dests[j] # id) - 1
    ELSE -1

durationMinutes(d) == d.hours * 60 + d.minutes

\* lines 299-304: the duration the job carries after the default is applied
EffectiveDuration(d) ==
    IF durationMinutes(d) = 0 THEN [days |-> 0, hours |-> 1, minutes |-> 0] ELSE d

\* line 308
EndTime(startTime, d) == startTime + durationMinutes(d) * 60

\* mutant: rows[matrixRowIndex].elements[nextJobIndex], without the ?.
LookupThrowsWithoutRow(e) == e.status \in {"rowWithoutElements", "norow"}

\* rows[matrixRowIndex]?.elements[nextJobIndex] reads an index of undefined
LookupThrows(e) == e.status = "rowWithoutElements"

\* matrixElement && matrixElement.duration
HasDuration(e) == e.status = "duration"

\* Math.ceil(seconds / 60)
CeilMinutes(seconds) == (seconds + 59) \div 60

\* lines 334-346: travelMinutes for a leg whose matrix element is e
TravelMinutes(e) ==
    IF HasDuration(e) THEN CeilMinutes(e.seconds) ELSE DefaultTravelMinutes

\* mutant: the buffer drawn without its 15-minute floor
BufferDrawsFromZero == 0..(BufferChoices - 1)

\* mutant: the buffer drawn from 15..45
BufferDrawsWide == MinBuffer..(MinBuffer + 2 * BufferChoices - 2)

\* Math.floor(Math.random() * 16) + 15
BufferDraws == MinBuffer..(MinBuffer + BufferChoices - 1)

\* one iteration of the loop of lines 296-357
SchedJob ==
    /\ schedPc = "loop"
    /\ schedIdx < Len(scheduledJobs)
    /\ LET i == schedIdx + 1
           job == scheduledJobs[i]
           dur == EffectiveDuration(job.duration)
           startTime == roundToQuarterHour(currentTime)
           endTime == EndTime(startTime, dur)
           timed == [job EXCEPT !.duration = dur,
                                !.startDate = formatDateLocal(startTime),
                                !.endDate = formatDateLocal(endTime)]
       IN  IF i < Len(scheduledJobs)
           THEN LET currentJobIndex == findIndex(destinations, job.id)
                    nextJobIndex == findIndex(destinations, scheduledJobs[i + 1].id)
                    key == <<currentJobIndex + 1, nextJobIndex>>
                IN  \E e \in MatrixElements \cup {Unread}, bufferMinutes \in BufferDraws :
                      /\ IF currentJobIndex # -1 /\ nextJobIndex # -1
                         THEN /\ e # Unread
                              /\ \A m \in distanceMatrix : m[1] = key => m[2] = e
                              /\ distanceMatrix' = distanceMatrix \cup {<<key, e>>}
                         ELSE /\ e = Unread
                              /\ distanceMatrix' = distanceMatrix
                      /\ IF LookupThrows(e)
                         THEN /\ scheduledJobs' = [scheduledJobs EXCEPT ![i] = timed]
                              /\ travelLog' = Append(travelLog, <<e, 0>>)
                              /\ schedPc' = "threw"
                              /\ UNCHANGED <<currentTime, schedIdx>>
                         ELSE /\ scheduledJobs' = [scheduledJobs EXCEPT ![i] =
                                    IF HasDuration(e)
                                    THEN [timed EXCEPT !.travelTimeToNext = <<e.seconds>>]
                                    ELSE timed]
                              /\ travelLog' = Append(travelLog, <<e, bufferMinutes>>)
                              /\ currentTime' = endTime + (TravelMinutes(e) + bufferMinutes) * 60
                              /\ schedIdx' = schedIdx + 1
                              /\ schedPc' = schedPc
           ELSE /\ scheduledJobs' = [scheduledJobs EXCEPT ![i] = timed]
                /\ schedIdx' = schedIdx + 1
                /\ UNCHANGED <<distanceMatrix, travelLog, currentTime, schedPc>>
    /\ UNCHANGED <<optimizedJobs, destinations, routingDate, now, baseFrom>>
    /\ UNCHANGED <<distVars, handlerVars>>

\* line 359
SchedReturn ==
    /\ schedPc = "loop"
    /\ schedIdx = Len(scheduledJobs)
    /\ schedPc' = "returned"
    /\ UNCHANGED <<optimizedJobs, destinations, routingDate, now,
                   distanceMatrix, baseFrom, currentTime, schedIdx,
                   scheduledJobs, travelLog>>
    /\ UNCHANGED <<distVars, handlerVars>>

SchedNext ==
    \/ SchedStart
    \/ SchedJob
    \/ SchedReturn

-----------------------------------------------------------------------------
(* The two functions as the handlers call them: one call, one value *)

\* the loop of lines 567-600 from job number i on, then lines 603-605
RECURSIVE WalkFrom(_, _, _, _, _, _)
WalkFrom(sorted, i, ds, cur, curDuration, m) ==
    IF i > Len(sorted)
    THEN IF Len(cur) > 0 THEN Append(ds, cur) ELSE ds
    ELSE LET job == sorted[i] IN
         IF JoinsCurrentDay(job, cur, curDuration, m)
         THEN WalkFrom(sorted, i + 1, ds, Append(cur, job),
                       curDuration + jobDuration(job), m)
         ELSE WalkFrom(sorted, i + 1,
                       IF Len(cur) > 0 THEN Append(ds, cur) ELSE ds,
                       <<job>>, jobDuration(job), m)

\* the loop of lines 608-638 from index i (0-based) on
RECURSIVE BalanceFrom(_, _, _)
BalanceFrom(ds, i, m) ==
    IF i >= Len(ds) - 1 THEN ds ELSE BalanceFrom(BalancePair(ds, i, m), i + 1, m)

\* job.location.latitude of a job without location (lines 541-546)
DistributeThrows(js, m) ==
    /\ ~FitsInOneDay(js, m)
    /\ \E k \in 1..Len(js) : js[k].loc = NoLocation

distributeJobsAcrossDays(js, m) ==
    IF FitsInOneDay(js, m) THEN <<js>>
    ELSE BalanceFrom(WalkFrom(SortJobs(js), 1, <<>>, <<>>, 0, m), 0, m)

\* a distance matrix whose entries are all alike: rows[r]?.elements[c]
MatrixLookup(matrix, row, col) == matrix.element

\* the loop of lines 296-357 from job number i on, every leg drawing the same
\* bufferMinutes
RECURSIVE LayOutFrom(_, _, _, _, _, _)
LayOutFrom(js, i, cur, dests, matrix, bufferMinutes) ==
    IF i > Len(js) THEN js
    ELSE LET job == js[i]
             dur == EffectiveDuration(job.duration)
             startTime == roundToQuarterHour(cur)
             endTime == EndTime(startTime, dur)
             timed == [job EXCEPT !.duration = dur,
                                  !.startDate = formatDateLocal(startTime),
                                  !.endDate = formatDateLocal(endTime)]
         IN  IF i < Len(js)
             THEN LET currentJobIndex == findIndex(dests, job.id)
                      nextJobIndex == findIndex(dests, js[i + 1].id)
                      e == IF currentJobIndex # -1 /\ nextJobIndex # -1
                           THEN MatrixLookup(matrix, currentJobIndex + 1, nextJobIndex)
                           ELSE Unread
                      done == IF HasDuration(e)
                              THEN [timed EXCEPT !.travelTimeToNext = <<e.seconds>>]
                              ELSE timed
                  IN  LayOutFrom([js EXCEPT ![i] = done], i + 1,
                                 endTime + (TravelMinutes(e) + bufferMinutes) * 60,
                                 dests, matrix, bufferMinutes)
             ELSE [js EXCEPT ![i] = timed]

scheduleOptimizedJobs(optimizedRoute, matrix, dests, rd, clock, bufferMinutes) ==
    LayOutFrom(optimizedRoute, 1,
               setSeconds(setMinutes(setHours(BaseDate(rd, optimizedRoute, clock)[1], 7), 30), 0),
               dests, matrix, bufferMinutes)

-----------------------------------------------------------------------------
(* POST /optimize-multi-day-route *)

HandlerDuration == [days |-> 0, hours |-> 0, minutes |-> 30]

\* a job of a request to a handler
HandlerJob(id, l) == Job(id, "Task", HandlerDuration, l, <<>>)

\* a list of n jobs, the first k at one place and the others 40 km away, the
\* job numbered bad (0: none) having badLoc for its location
RequestJobs(n, k, bad, badLoc) ==
    [i \in 1..n |-> HandlerJob(i, IF i = bad THEN badLoc
                                  ELSE IF i <= k THEN 0 ELSE 40)]

\* a job that fills a working day, and one that takes more than a day
FullDayDuration == [days |-> 0, hours |-> 8, minutes |-> 20]
LongerThanADay == [days |-> 0, hours |-> 30, minutes |-> 0]

\* n jobs at one place, the first `long` of them of duration d
LongRequestJobs(n, long, d) ==
    [i \in 1..n |-> Job(i, "Task", IF i <= long THEN d ELSE HandlerDuration, 0, <<>>)]

\* startFromDate: month, year and leap-day ends, and a year below 100
StartDates == {<<2023, 12, 30>>, <<2024, 2, 28>>, <<50, 12, 31>>}
\* absent; a string that is no date ("2024-03-100"); a number
BadDates == {<<>>, <<2024, 3, 100>>, <<20240301>>}

\* a value with a match method
IsString(s) == Len(s) # 1

\* s.match(/^\d{4}-\d{2}-\d{2}$/)
MatchesDatePattern(s) ==
    /\ Len(s) = 3
    /\ s[1] \in 0..9999
    /\ s[2] \in 0..99
    /\ s[3] \in 0..99

\* error.message
Message(text, day, job) == [text |-> text, day |-> day, job |-> job]
NoMessage == Message("", 0, 0)

NoSummary == [totalJobs |-> 0, totalDays |-> 0, startDate |-> <<>>, endDate |-> <<>>]

\* res.status(status).json({ error })
ValidationResponse(status, error) ==
    [status |-> status, fields |-> {"error"}, error |-> error,
     details |-> NoMessage, optimizedSchedule |-> <<>>, optimizedRoute |-> <<>>,
     summary |-> NoSummary]

\* mutant: the days optimized so far sent along with the error
ErrorResponseWithDays(error, details, daysSoFar) ==
    [status |-> 500, fields |-> {"error", "details", "timestamp", "optimizedSchedule"},
     error |-> error, details |-> details, optimizedSchedule |-> daysSoFar,
     optimizedRoute |-> <<>>, summary |-> NoSummary]

\* the response of the catch block
ErrorResponse(error, details, daysSoFar) ==
    [status |-> 500, fields |-> {"error", "details", "timestamp"},
     error |-> error, details |-> details, optimizedSchedule |-> <<>>,
     optimizedRoute |-> <<>>, summary |-> NoSummary]

RECURSIVE SumTotalJobs(_)
SumTotalJobs(ds) == IF ds = <<>> THEN 0 ELSE ds[1].totalJobs + SumTotalJobs(Tail(ds))

\* lines 806-824
SuccessResponse(req, ds) ==
    [status |-> 200,
     fields |-> {"originalJobs", "optimizedSchedule", "summary", "timestamp"},
     error |-> "", details |-> NoMessage, optimizedSchedule |-> ds,
     optimizedRoute |-> <<>>,
     summary |-> [totalJobs |-> SumTotalJobs(ds), totalDays |-> Len(ds),
                  startDate |-> req.date,
                  endDate |-> IF Len(ds) > 0 THEN ds[Len(ds)].date ELSE <<>>]]

\* mutant: the list is not checked against the cap of 20
MultiValidationNoCap(req, environment) ==
    IF ~req.jobsIsArray \/ Len(req.jobs) = 0
    THEN <<400, "Jobs array is required and must contain at least one job">>
    ELSE IF req.date # <<>> /\ ~IsString(req.date)
    THEN <<-1, "TypeError">>
    ELSE IF req.date = <<>> \/ ~MatchesDatePattern(req.date)
    THEN <<400, "startFromDate is required and must be in YYYY-MM-DD format">>
    ELSE IF ~environment.GOOGLE_MAPS_API_KEY
    THEN <<500, "Google Maps API key is not configured">>
    ELSE <<0, "">>

\* lines 648-670: <<status, error>> of the early return, <<0, "">> for none,
\* <<-1, ...>> when startFromDate.match is not a function
MultiValidation(req, environment) ==
    IF ~req.jobsIsArray \/ Len(req.jobs) = 0
    THEN <<400, "Jobs array is required and must contain at least one job">>
    ELSE IF Len(req.jobs) > MaxJobsPerRequest
    THEN <<400, "Maximum 20 jobs supported for multi-day optimization">>
    ELSE IF req.date # <<>> /\ ~IsString(req.date)
    THEN <<-1, "TypeError">>
    ELSE IF req.date = <<>> \/ ~MatchesDatePattern(req.date)
    THEN <<400, "startFromDate is required and must be in YYYY-MM-DD format">>
    ELSE IF ~environment.GOOGLE_MAPS_API_KEY
    THEN <<500, "Google Maps API key is not configured">>
    ELSE <<0, "">>

\* what the two services can answer
MatrixAnswer(kind, e) == [kind |-> kind, element |-> e]
MatrixAnswers ==
    {MatrixAnswer("error", Unread), MatrixAnswer("rowWithoutElements", Unread),
     MatrixAnswer("rows", MatrixElement("duration", 61)),
     MatrixAnswer("rows", MatrixElement("norow", 0))}

ChatAnswer(kind, route) == [kind |-> kind, optimizedRoute |-> route]
\* for n destinations: the call fails; text that is no JSON; JSON without
\* optimizedRoute; optimizedRoute listing 1..n forwards or backwards
ChatAnswers(n) ==
    {ChatAnswer("error", <<>>), ChatAnswer("text", <<>>), ChatAnswer("json", <<>>),
     ChatAnswer("route", [t \in 1..n |-> t]),
     ChatAnswer("route", [t \in 1..n |-> n + 1 - t])}

\* optimizedRoute listing 1..n-1, listing 1 n times, or listing the number
\* n+1 of no destination
OddRoutes(n) ==
    {ChatAnswer("route", [t \in 1..(n - 1) |-> t]),
     ChatAnswer("route", [t \in 1..n |-> 1]),
     ChatAnswer("route", <<n + 1>>)}

\* the answers drawn for a day of n destinations; the odd routes are drawn
\* when reqs holds one request only
ChatDraws(reqs, n) ==
    IF Len(reqs) = 1 THEN ChatAnswers(n) \cup OddRoutes(n) ELSE ChatAnswers(n)

\* what an answer of a service is logged as
Answer(api, day, answer, bufferMinutes) ==
    [api |-> api, day |-> day, answer |-> answer, bufferMinutes |-> bufferMinutes]

\* mutant: text that is no JSON is taken for an object
ParsesLeniently(answer) == answer.kind \in {"text", "json", "route"}

\* JSON.parse(completion.choices[0].message.content) returns
ParsesAsJson(answer) == answer.kind \in {"json", "route"}

\* aiRecommendation.optimizedRoute.map(...) of lines 782-788 does not throw:
\* there is an optimizedRoute and destinations[jobIndex - 1] exists for each
\* of its numbers
RouteMaps(answer, dests) ==
    /\ answer.kind = "route"
    /\ \A t \in 1..Len(answer.optimizedRoute) :
          answer.optimizedRoute[t] \in 1..Len(dests)

\* the two ends of BufferDraws
DayBuffers == {MinBuffer, MinBuffer + BufferChoices - 1}

\* optimizedRoute.indexOf(x) + 1
IndexOfPlusOne(route, x) ==
    CHOOSE t \in 1..Len(route) : route[t] = x /\ \A u \in 1..(t - 1) : route[u] # x

\* lines 782-788
OptimizedJobsRoute(dayJobs, dests, route) ==
    [t \in 1..Len(route) |->
        LET job == dayJobs[CHOOSE k \in 1..Len(dayJobs) :
                             dayJobs[k].id = dests[route[t]]]
        IN  [f \in DOMAIN job \cup {"routeOrder"} |->
                IF f = "routeOrder" THEN IndexOfPlusOne(route, route[t]) ELSE job[f]]]

\* lines 793-801
OptimizedDay(rd, dayIdx, scheduled, answer) ==
    [date |-> rd, dayNumber |-> dayIdx + 1, jobs |-> scheduled,
     routeOptimization |-> answer.optimizedRoute, totalJobs |-> Len(scheduled),
     estimatedStartTime |-> IF Len(scheduled) > 0 THEN scheduled[1].startDate ELSE <<>>,
     estimatedEndTime |-> IF Len(scheduled) > 0
                          THEN scheduled[Len(scheduled)].endDate ELSE <<>>]

NoLocals == [routingDate |-> <<>>, destinations |-> <<>>,
             matrix |-> MatrixAnswer("none", Unread)]

Call(r, api, day) == [request |-> r, api |-> api, day |-> day]

\* mutant: one optimizedDays for all invocations of the handler
SharedInvocation(r) == 1

\* the invocation whose bindings (const optimizedDays, line 685) serve request r
Invocation(r) == r

\* mutant: the failure of a day is logged and the loop goes on to the next day
SkipFailedDay(r, details) ==
    /\ hPc' = [hPc EXCEPT ![r] = "loop"]
    /\ dayIndex' = [dayIndex EXCEPT ![r] = @ + 1]
    /\ responses' = responses
    /\ failures' = [failures EXCEPT ![r] = Append(@, [day |-> dayIndex[r] + 1, details |-> details])]

\* the catch block of lines 826-833, entered from the body of the loop
CatchInLoop(r, details) ==
    /\ hPc' = [hPc EXCEPT ![r] = "responded"]
    /\ dayIndex' = dayIndex
    /\ responses' = [responses EXCEPT ![r] =
          Append(@, ErrorResponse("Failed to optimize multi-day route", details,
                                  optimizedDays[Invocation(r)]))]
    /\ failures' = [failures EXCEPT ![r] = Append(@, [day |-> dayIndex[r] + 1, details |-> details])]

MultiRequests == {r \in DOMAIN request : request[r].endpoint = "/optimize-multi-day-route"}

\* lines 646-670
MultiValidate ==
    \E r \in MultiRequests :
    /\ hPc[r] = "received"
    /\ LET v == MultiValidation(request[r], env) IN
         IF v[1] = 0
         THEN /\ hPc' = [hPc EXCEPT ![r] = "validated"]
              /\ responses' = responses
         ELSE /\ hPc' = [hPc EXCEPT ![r] = "responded"]
              /\ responses' = [responses EXCEPT ![r] = Append(@,
                    IF v[1] = -1
                    THEN ErrorResponse("Failed to optimize multi-day route",
                                       Message(v[2], 0, 0), optimizedDays[Invocation(r)])
                    ELSE ValidationResponse(v[1], v[2]))]
    /\ UNCHANGED <<env, request, jobsByDay, dayIndex, dayLocals, optimizedDays,
                   calls, outstanding, plannerRuns, failures, answers>>
    /\ UNCHANGED overlapped
    /\ UNCHANGED <<distVars, schedVars>>

\* line 677
MultiDistribute ==
    \E r \in MultiRequests :
    /\ hPc[r] = "validated"
    /\ plannerRuns' = [plannerRuns EXCEPT ![r] = @ + 1]
    /\ IF DistributeThrows(request[r].jobs, JobsPerDay)
       THEN /\ hPc' = [hPc EXCEPT ![r] = "responded"]
            /\ responses' = [responses EXCEPT ![r] = Append(@,
                  ErrorResponse("Failed to optimize multi-day route",
                                Message("TypeError", 0, 0), optimizedDays[Invocation(r)]))]
            /\ jobsByDay' = jobsByDay
       ELSE /\ hPc' = [hPc EXCEPT ![r] = "loop"]
            /\ responses' = responses
            /\ jobsByDay' = [jobsByDay EXCEPT ![r] =
                  distributeJobsAcrossDays(request[r].jobs, JobsPerDay)]
    /\ UNCHANGED <<env, request, dayIndex, dayLocals, optimizedDays, calls,
                   outstanding, failures, answers>>
    /\ UNCHANGED overlapped
    /\ UNCHANGED <<distVars, schedVars>>

\* lines 687-723: the head of an iteration up to the distance matrix request
DayStart ==
    \E r \in MultiRequests :
    /\ hPc[r] = "loop"
    /\ dayIndex[r] < Len(jobsByDay[r])
    /\ LET dayJobs == jobsByDay[r][dayIndex[r] + 1]
           rd == addDaysToDateString(request[r].date, dayIndex[r])
       IN  IF \E k \in 1..Len(dayJobs) : MissingCoordinates(dayJobs[k])
           THEN /\ CatchInLoop(r, Message("is missing location coordinates", 0,
                     dayJobs[CHOOSE k \in 1..Len(dayJobs) :
                        /\ MissingCoordinates(dayJobs[k])
                        /\ \A j \in 1..(k - 1) : ~MissingCoordinates(dayJobs[j])].id))
                /\ UNCHANGED <<dayLocals, calls, outstanding>>
           ELSE /\ dayLocals' = [dayLocals EXCEPT ![r] =
                      [routingDate |-> rd,
                       destinations |-> [k \in 1..Len(dayJobs) |-> dayJobs[k].id],
                       matrix |-> MatrixAnswer("none", Unread)]]
                /\ calls' = [calls EXCEPT ![r] = Append(@, Call(r, "distancematrix", dayIndex[r] + 1))]
                /\ outstanding' = outstanding \cup {Call(r, "distancematrix", dayIndex[r] + 1)}
                /\ hPc' = [hPc EXCEPT ![r] = "awaitMatrix"]
                /\ UNCHANGED <<dayIndex, responses, failures>>
    /\ UNCHANGED <<env, request, jobsByDay, optimizedDays, plannerRuns, answers>>
    /\ UNCHANGED overlapped
    /\ UNCHANGED <<distVars, schedVars>>

\* lines 713-771: the distance matrix request settles; the prompt is built and
\* the chat request sent
MatrixReturn ==
    \E r \in MultiRequests :
    /\ hPc[r] = "awaitMatrix"
    /\ \E answer \in MatrixAnswers :
         /\ answers' = [answers EXCEPT ![r] =
               Append(@, Answer("distancematrix", dayIndex[r] + 1, answer, 0))]
         /\ IF answer.kind = "rows"
            THEN /\ dayLocals' = [dayLocals EXCEPT ![r].matrix = answer]
                 /\ calls' = [calls EXCEPT ![r] = Append(@, Call(r, "chat", dayIndex[r] + 1))]
                 /\ outstanding' = (outstanding \ {Call(r, "distancematrix", dayIndex[r] + 1)})
                                      \cup {Call(r, "chat", dayIndex[r] + 1)}
                 /\ hPc' = [hPc EXCEPT ![r] = "awaitChat"]
                 /\ UNCHANGED <<dayIndex, responses, failures>>
            ELSE /\ CatchInLoop(r, IF answer.kind = "error"
                                   THEN Message("distance matrix request failed", 0, 0)
                                   ELSE Message("TypeError", 0, 0))
                 /\ outstanding' = outstanding \ {Call(r, "distancematrix", dayIndex[r] + 1)}
                 /\ UNCHANGED <<dayLocals, calls>>
    /\ UNCHANGED <<env, request, jobsByDay, optimizedDays, plannerRuns>>
    /\ overlapped' = (overlapped \/ Cardinality(outstanding) > 1)
    /\ UNCHANGED <<distVars, schedVars>>

\* lines 763-804: the chat request settles; the answer is parsed, the day is
\* laid out and pushed
ChatReturn ==
    \E r \in MultiRequests :
    /\ hPc[r] = "awaitChat"
    /\ outstanding' = outstanding \ {Call(r, "chat", dayIndex[r] + 1)}
    /\ LET dayJobs == jobsByDay[r][dayIndex[r] + 1]
           locals == dayLocals[r]
       IN  \E answer \in ChatDraws(request, Len(dayJobs)), bufferMinutes \in DayBuffers,
              clock \in ClockTimes :
             IF ParsesAsJson(answer) /\ RouteMaps(answer, locals.destinations)
             THEN /\ answers' = [answers EXCEPT ![r] =
                        Append(@, Answer("chat", dayIndex[r] + 1, answer, bufferMinutes))]
                  /\ optimizedDays' = [optimizedDays EXCEPT ![Invocation(r)] = Append(@,
                        OptimizedDay(locals.routingDate, dayIndex[r],
                           scheduleOptimizedJobs(
                              OptimizedJobsRoute(dayJobs, locals.destinations,
                                                 answer.optimizedRoute),
                              locals.matrix, locals.destinations,
                              locals.routingDate, clock, bufferMinutes),
                           answer))]
                  /\ dayIndex' = [dayIndex EXCEPT ![r] = @ + 1]
                  /\ hPc' = [hPc EXCEPT ![r] = "loop"]
                  /\ UNCHANGED <<responses, failures>>
             ELSE /\ answers' = [answers EXCEPT ![r] =
                        Append(@, Answer("chat", dayIndex[r] + 1, answer, 0))]
                  /\ CatchInLoop(r,
                       IF answer.kind = "error" THEN Message("chat request failed", 0, 0)
                       ELSE IF ~ParsesAsJson(answer)
                       THEN Message("Invalid AI response format", dayIndex[r] + 1, 0)
                       ELSE Message("TypeError", 0, 0))
                  /\ optimizedDays' = optimizedDays
    /\ UNCHANGED <<env, request, jobsByDay, dayLocals, calls, plannerRuns>>
    /\ overlapped' = (overlapped \/ Cardinality(outstanding) > 1)
    /\ UNCHANGED <<distVars, schedVars>>

\* lines 806-824
MultiRespond ==
    \E r \in MultiRequests :
    /\ hPc[r] = "loop"
    /\ dayIndex[r] >= Len(jobsByDay[r])
    /\ responses' = [responses EXCEPT ![r] =
          Append(@, SuccessResponse(request[r], optimizedDays[Invocation(r)]))]
    /\ hPc' = [hPc EXCEPT ![r] = "responded"]
    /\ UNCHANGED <<env, request, jobsByDay, dayIndex, dayLocals, optimizedDays,
                   calls, outstanding, plannerRuns, failures, answers>>
    /\ UNCHANGED overlapped
    /\ UNCHANGED <<distVars, schedVars>>

MultiNext ==
    \/ MultiValidate
    \/ MultiDistribute
    \/ DayStart
    \/ MatrixReturn
    \/ ChatReturn
    \/ MultiRespond

\* one request to POST /optimize-multi-day-route
MultiInit ==
    /\ env \in [GOOGLE_MAPS_API_KEY : BOOLEAN]
    /\ \E js \in {RequestJobs(n, k, bad, badLoc) :
                     n \in 0..MaxReqJobs, k \in 0..MaxReqJobs,
                     bad \in 0..MaxReqJobs, badLoc \in {NoLatLng, NoLocation}}
                 \cup {RequestJobs(MaxJobsPerRequest + 1, 0, 0, NoLatLng)}
                 \cup {LongRequestJobs(2, 2, FullDayDuration),
                       LongRequestJobs(JobsPerDay + 1, 1, LongerThanADay)},
          isArray \in BOOLEAN, date \in StartDates \cup BadDates :
         /\ isArray \/ js = <<>>
         /\ request = <<[endpoint |-> "/optimize-multi-day-route",
                         jobsIsArray |-> isArray, jobs |-> js, date |-> date]>>
    /\ hPc = <<"received">>
    /\ jobsByDay = << <<>> >>
    /\ dayIndex = <<0>>
    /\ dayLocals = <<NoLocals>>
    /\ optimizedDays = << <<>> >>
    /\ responses = << <<>> >>
    /\ calls = << <<>> >>
    /\ outstanding = {}
    /\ plannerRuns = <<0>>
    /\ failures = << <<>> >>
    /\ answers = << <<>> >>
    /\ overlapped = FALSE

-----------------------------------------------------------------------------
(* POST /optimize-route *)

\* lines 367-384: <<status, error>> of the early return, <<0, "">> for none,
\* <<-1, ...>> when routingDate.match is not a function
SingleValidation(req, environment) ==
    IF ~req.jobsIsArray \/ Len(req.jobs) = 0
    THEN <<400, "Jobs array is required and must contain at least one job">>
    ELSE IF req.date # <<>> /\ ~IsString(req.date)
    THEN <<-1, "TypeError">>
    ELSE IF req.date # <<>> /\ ~MatchesDatePattern(req.date)
    THEN <<400, "routingDate must be in YYYY-MM-DD format">>
    ELSE IF ~environment.GOOGLE_MAPS_API_KEY
    THEN <<500, "Google Maps API key is not configured">>
    ELSE <<0, "">>

\* lines 504-510
SingleSuccessResponse(scheduled) ==
    [status |-> 200,
     fields |-> {"originalJobs", "optimizedRoute", "routeOptimization",
                 "distanceMatrix", "timestamp"},
     error |-> "", details |-> NoMessage, optimizedSchedule |-> <<>>,
     optimizedRoute |-> scheduled, summary |-> NoSummary]

\* the catch block of lines 512-519
SingleCatch(r, details) ==
    /\ hPc' = [hPc EXCEPT ![r] = "responded"]
    /\ responses' = [responses EXCEPT ![r] =
          Append(@, ErrorResponse("Failed to optimize route", details, <<>>))]
    /\ failures' = [failures EXCEPT ![r] = Append(@, [day |-> 1, details |-> details])]

SingleRequests == {r \in DOMAIN request : request[r].endpoint = "/optimize-route"}

\* lines 365-384
SingleValidate ==
    \E r \in SingleRequests :
    /\ hPc[r] = "received"
    /\ LET v == SingleValidation(request[r], env) IN
         IF v[1] = 0
         THEN /\ hPc' = [hPc EXCEPT ![r] = "validated"]
              /\ responses' = responses
         ELSE /\ hPc' = [hPc EXCEPT ![r] = "responded"]
              /\ responses' = [responses EXCEPT ![r] = Append(@,
                    IF v[1] = -1
                    THEN ErrorResponse("Failed to optimize route",
                                       Message(v[2], 0, 0), <<>>)
                    ELSE ValidationResponse(v[1], v[2]))]
    /\ UNCHANGED <<env, request, jobsByDay, dayIndex, dayLocals, optimizedDays,
                   calls, outstanding, plannerRuns, failures, answers>>
    /\ UNCHANGED overlapped
    /\ UNCHANGED <<distVars, schedVars>>

\* lines 386-417: the destinations and the distance matrix request
SingleStart ==
    \E r \in SingleRequests :
    /\ hPc[r] = "validated"
    /\ LET js == request[r].jobs IN
         IF \E k \in 1..Len(js) : MissingCoordinates(js[k])
         THEN /\ SingleCatch(r, Message("is missing location coordinates", 0,
                   js[CHOOSE k \in 1..Len(js) :
                        /\ MissingCoordinates(js[k])
                        /\ \A j \in 1..(k - 1) : ~MissingCoordinates(js[j])].id))
              /\ UNCHANGED <<dayLocals, calls, outstanding>>
         ELSE /\ dayLocals' = [dayLocals EXCEPT ![r] =
                    [routingDate |-> request[r].date,
                     destinations |-> [k \in 1..Len(js) |-> js[k].id],
                     matrix |-> MatrixAnswer("none", Unread)]]
              /\ calls' = [calls EXCEPT ![r] = Append(@, Call(r, "distancematrix", 1))]
              /\ outstanding' = outstanding \cup {Call(r, "distancematrix", 1)}
              /\ hPc' = [hPc EXCEPT ![r] = "awaitMatrix"]
              /\ UNCHANGED <<responses, failures>>
    /\ UNCHANGED <<env, request, jobsByDay, dayIndex, optimizedDays, plannerRuns,
                   answers>>
    /\ UNCHANGED overlapped
    /\ UNCHANGED <<distVars, schedVars>>

\* lines 407-465: the distance matrix request settles; the prompt is built and
\* the chat request sent
SingleMatrixReturn ==
    \E r \in SingleRequests :
    /\ hPc[r] = "awaitMatrix"
    /\ \E answer \in MatrixAnswers :
         /\ answers' = [answers EXCEPT ![r] =
               Append(@, Answer("distancematrix", 1, answer, 0))]
         /\ IF answer.kind = "rows"
            THEN /\ dayLocals' = [dayLocals EXCEPT ![r].matrix = answer]
                 /\ calls' = [calls EXCEPT ![r] = Append(@, Call(r, "chat", 1))]
                 /\ outstanding' = (outstanding \ {Call(r, "distancematrix", 1)})
                                      \cup {Call(r, "chat", 1)}
                 /\ hPc' = [hPc EXCEPT ![r] = "awaitChat"]
                 /\ UNCHANGED <<responses, failures>>
            ELSE /\ SingleCatch(r, IF answer.kind = "error"
                                   THEN Message("distance matrix request failed", 0, 0)
                                   ELSE Message("TypeError", 0, 0))
                 /\ outstanding' = outstanding \ {Call(r, "distancematrix", 1)}
                 /\ UNCHANGED <<dayLocals, calls>>
    /\ UNCHANGED <<env, request, jobsByDay, dayIndex, optimizedDays, plannerRuns>>
    /\ overlapped' = (overlapped \/ Cardinality(outstanding) > 1)
    /\ UNCHANGED <<distVars, schedVars>>

\* lines 457-510: the chat request settles; the answer is parsed, the jobs are
\* laid out and the response is sent
SingleChatReturn ==
    \E r \in SingleRequests :
    /\ hPc[r] = "awaitChat"
    /\ outstanding' = outstanding \ {Call(r, "chat", 1)}
    /\ LET js == request[r].jobs
           locals == dayLocals[r]
       IN  \E answer \in ChatDraws(request, Len(js)), bufferMinutes \in DayBuffers,
              clock \in ClockTimes :
             IF ParsesAsJson(answer) /\ RouteMaps(answer, locals.destinations)
             THEN /\ answers' = [answers EXCEPT ![r] =
                        Append(@, Answer("chat", 1, answer, bufferMinutes))]
                  /\ responses' = [responses EXCEPT ![r] = Append(@,
                        SingleSuccessResponse(
                           scheduleOptimizedJobs(
                              OptimizedJobsRoute(js, locals.destinations,
                                                 answer.optimizedRoute),
                              locals.matrix, locals.destinations,
                              locals.routingDate, clock, bufferMinutes)))]
                  /\ hPc' = [hPc EXCEPT ![r] = "responded"]
                  /\ UNCHANGED failures
             ELSE /\ answers' = [answers EXCEPT ![r] =
                        Append(@, Answer("chat", 1, answer, 0))]
                  /\ SingleCatch(r,
                       IF answer.kind = "error" THEN Message("chat request failed", 0, 0)
                       ELSE IF ~ParsesAsJson(answer)
                       THEN Message("Invalid AI response format", 0, 0)
                       ELSE Message("TypeError", 0, 0))
    /\ UNCHANGED <<env, request, jobsByDay, dayIndex, dayLocals, optimizedDays,
                   calls, plannerRuns>>
    /\ overlapped' = (overlapped \/ Cardinality(outstanding) > 1)
    /\ UNCHANGED <<distVars, schedVars>>

\* a list of n jobs for POST /optimize-route, the first with startDate sd, the
\* job numbered bad (0: none) having badLoc for its location
SingleJobs(n, sd, bad, badLoc) ==
    [i \in 1..n |-> Job(i, "Task", HandlerDuration,
                        IF i = bad THEN badLoc ELSE 0,
                        IF i = 1 THEN sd ELSE <<>>)]

\* one request to POST /optimize-route; routingDate is optional
SingleInit ==
    /\ env \in [GOOGLE_MAPS_API_KEY : BOOLEAN]
    /\ \E js \in {SingleJobs(n, sd, bad, badLoc) :
                     n \in 0..MaxSchedJobs, sd \in FirstJobStartDates,
                     bad \in 0..MaxSchedJobs, badLoc \in {NoLatLng, NoLocation}},
          isArray \in BOOLEAN, date \in StartDates \cup BadDates :
         /\ isArray \/ js = <<>>
         /\ request = <<[endpoint |-> "/optimize-route",
                         jobsIsArray |-> isArray, jobs |-> js, date |-> date]>>
    /\ hPc = <<"received">>
    /\ jobsByDay = << <<>> >>
    /\ dayIndex = <<0>>
    /\ dayLocals = <<NoLocals>>
    /\ optimizedDays = << <<>> >>
    /\ responses = << <<>> >>
    /\ calls = << <<>> >>
    /\ outstanding = {}
    /\ plannerRuns = <<0>>
    /\ failures = << <<>> >>
    /\ answers = << <<>> >>
    /\ overlapped = FALSE

\* both routes
RoutesNext ==
    \/ MultiValidate
    \/ MultiDistribute
    \/ DayStart
    \/ MatrixReturn
    \/ ChatReturn
    \/ MultiRespond
    \/ SingleValidate
    \/ SingleStart
    \/ SingleMatrixReturn
    \/ SingleChatReturn

\* what one of two requests handled at the same time can be: a multi-day
\* request of a few jobs or of one job more than fit one day (two buckets), or
\* a single-day request of a few jobs
PairRequests(date) ==
    {[endpoint |-> "/optimize-multi-day-route", jobsIsArray |-> TRUE,
      jobs |-> RequestJobs(n, 1, 0, NoLatLng), date |-> date] :
        n \in (1..MaxPairJobs) \cup {JobsPerDay + 1}}
    \cup {[endpoint |-> "/optimize-route", jobsIsArray |-> TRUE,
           jobs |-> SingleJobs(n, <<>>, 0, NoLatLng), date |-> date] :
              n \in 1..MaxPairJobs}

\* two requests received, neither handled yet
PairInit ==
    /\ env = [GOOGLE_MAPS_API_KEY |-> TRUE]
    /\ \E first \in PairRequests(<<2023, 12, 30>>),
          second \in PairRequests(<<2024, 2, 28>>) :
         request = <<first, second>>
    /\ hPc = <<"received", "received">>
    /\ jobsByDay = << <<>>, <<>> >>
    /\ dayIndex = <<0, 0>>
    /\ dayLocals = <<NoLocals, NoLocals>>
    /\ optimizedDays = << <<>>, <<>> >>
    /\ responses = << <<>>, <<>> >>
    /\ calls = << <<>>, <<>> >>
    /\ outstanding = {}
    /\ plannerRuns = <<0, 0>>
    /\ failures = << <<>>, <<>> >>
    /\ answers = << <<>>, <<>> >>
    /\ overlapped = FALSE

\* no request to a handler
HandlerIdle ==
    /\ env = [GOOGLE_MAPS_API_KEY |-> TRUE]
    /\ request = <<>>
    /\ hPc = <<>>
    /\ jobsByDay = <<>>
    /\ dayIndex = <<>>
    /\ dayLocals = <<>>
    /\ optimizedDays = <<>>
    /\ responses = <<>>
    /\ calls = <<>>
    /\ outstanding = {}
    /\ plannerRuns = <<>>
    /\ failures = <<>>
    /\ answers = <<>>
    /\ overlapped = FALSE

-----------------------------------------------------------------------------
(* Specifications: one function called on every input within the bounds, one
   handler serving every request within the bounds *)

vars == <<distVars, schedVars, handlerVars>>

\* no call of distributeJobsAcrossDays
DistIdle ==
    /\ jobs = <<>>
    /\ maxJobsPerDay = 7
    /\ distPc = "idle"
    /\ prioritizedJobs = <<>>
    /\ walkIdx = 0
    /\ days = <<>>
    /\ currentDay = <<>>
    /\ currentDayDuration = 0
    /\ rebIdx = 0
    /\ moved = <<>>
    /\ returned = <<>>

\* no call of scheduleOptimizedJobs
SchedIdle ==
    /\ optimizedJobs = <<>>
    /\ destinations = <<>>
    /\ routingDate = <<>>
    /\ now = 0
    /\ distanceMatrix = {}
    /\ schedPc = "idle"
    /\ baseFrom = "none"
    /\ currentTime = 0
    /\ schedIdx = 0
    /\ scheduledJobs = <<>>
    /\ travelLog = <<>>

InitDist == DistInit /\ SchedIdle /\ HandlerIdle

SpecDist == InitDist /\ [][DistNext]_vars

InitWalk == WalkInit /\ SchedIdle /\ HandlerIdle

SpecWalk == InitWalk /\ [][DistNext]_vars

InitSpread == SpreadInit /\ SchedIdle /\ HandlerIdle

SpecSpread == InitSpread /\ [][DistNext]_vars

InitSched == SchedInit /\ DistIdle /\ HandlerIdle

SpecSched == InitSched /\ [][SchedNext]_vars

InitMulti == MultiInit /\ DistIdle /\ SchedIdle

SpecMulti == InitMulti /\ [][MultiNext]_vars

\* one request to either route
InitRoutes == (MultiInit \/ SingleInit) /\ DistIdle /\ SchedIdle

SpecRoutes == InitRoutes /\ [][RoutesNext]_vars

\* two requests, their handlers interleaved at the awaits
InitPair == PairInit /\ DistIdle /\ SchedIdle

SpecPair == InitPair /\ [][RoutesNext]_vars

-----------------------------------------------------------------------------
(* Properties of scheduleOptimizedJobs *)

\* the instant a timestamp string names, in seconds
StampSeconds(stamp) ==
    DaysFromCivil(stamp[1], stamp[2], stamp[3]) * 86400
        + stamp[4] * 3600 + stamp[5] * 60 + stamp[6]

\* the least instant at or after t on a quarter-hour boundary
NextQuarterHour(t) == IF t % 900 = 0 THEN t ELSE t + 900 - (t % 900)

\* legs whose two jobs both have their dates
LaidOutLegs == {k \in 1..Len(travelLog) : k + 1 <= schedIdx}

\* next.startDate - current.endDate of leg k, in seconds
Gap(k) ==
    StampSeconds(scheduledJobs[k + 1].startDate) - StampSeconds(scheduledJobs[k].endDate)

\* the travel estimate of leg k in minutes: the matrix duration rounded up to
\* minutes, or 15 when the matrix has no duration for the leg
TravelEstimate(k) ==
    IF travelLog[k][1].status = "duration"
    THEN CHOOSE m \in 0..(travelLog[k][1].seconds \div 60 + 1) :
            m * 60 >= travelLog[k][1].seconds /\ (m - 1) * 60 < travelLog[k][1].seconds
    ELSE 15

\* the cursor of leg k before rounding: minutes past the hour
CursorMinute(k) ==
    ((StampSeconds(scheduledJobs[k].endDate) \div 60)
        + TravelEstimate(k) + travelLog[k][2]) % 60

\* C5: a job's startDate is the least quarter-hour instant at or after the
\* time cursor (a cursor at minute 46..59 gives the top of the next hour).
C5_StartIsNextQuarterHour ==
    [][schedIdx' = schedIdx + 1 =>
          StampSeconds(scheduledJobs'[schedIdx + 1].startDate)
              = NextQuarterHour(currentTime)]_vars

\* C6: between consecutive jobs, next.startDate - current.endDate is at most
\* the leg's travel estimate plus 30 minutes.
C6_GapAtMostTravelPlus30 ==
    \A k \in LaidOutLegs : Gap(k) <= (TravelEstimate(k) + 30) * 60

\* C6 as amended: the gap is at most the travel estimate plus 30 minutes plus
\* the rounding of the cursor: 14 minutes more when the cursor's minute is at
\* most 45, 74 minutes more when it is 46..59.
C6_GapAtMostTravelPlus30PlusRounding ==
    \A k \in LaidOutLegs :
        Gap(k) <= (TravelEstimate(k) + 30 + (IF CursorMinute(k) <= 45 THEN 14 ELSE 74)) * 60

\* a leg laid out from a cursor at minute 46..59, its gap beyond travel + 30 + 14
C6_Witness ==
    /\ schedPc = "returned"
    /\ \E k \in LaidOutLegs :
          /\ CursorMinute(k) > 45
          /\ Gap(k) > (TravelEstimate(k) + 30 + 14) * 60

\* C7: between consecutive jobs, next.startDate - current.endDate is at least
\* 15 minutes, whatever the matrix holds and whatever buffer is drawn.
C7_GapAtLeast15 ==
    \A k \in LaidOutLegs : Gap(k) >= 15 * 60

\* a leg with a matrix duration of 0 seconds and the least buffer, laid out
\* with a gap of exactly 15 minutes
C7_Witness ==
    \E k \in LaidOutLegs :
        /\ travelLog[k][1] = MatrixElement("duration", 0)
        /\ travelLog[k][2] = 15
        /\ Gap(k) = 15 * 60

\* the declared duration {days, hours, minutes} in seconds, zero counted as 60 minutes
DeclaredSeconds(d) ==
    IF d.days = 0 /\ d.hours = 0 /\ d.minutes = 0 THEN 3600
    ELSE d.days * 86400 + d.hours * 3600 + d.minutes * 60

\* C8: endDate - startDate of every scheduled job is its declared duration
\* {days, hours, minutes}, a zero duration counting as 60 minutes.
C8_EndMinusStartIsDuration ==
    \A k \in 1..schedIdx :
        StampSeconds(scheduledJobs[k].endDate) - StampSeconds(scheduledJobs[k].startDate)
            = DeclaredSeconds(optimizedJobs[k].duration)

\* C9: every startDate has its minutes in {0, 15, 30, 45} and zero seconds.
C9_StartOnQuarterHour ==
    \A k \in 1..schedIdx :
        /\ scheduledJobs[k].startDate[5] \in {0, 15, 30, 45}
        /\ scheduledJobs[k].startDate[6] = 0

\* a job laid out from a cursor off the quarter hour, past minute 45
C9_Witness ==
    /\ schedPc = "returned"
    /\ \E k \in LaidOutLegs :
          /\ CursorMinute(k) > 45
          /\ scheduledJobs[k + 1].startDate[5] = 0

\* the date the caller supplied: routingDate, else the date of the first job
SuppliedDate == IF routingDate # <<>> THEN routingDate ELSE optimizedJobs[1].startDate

\* C10: the schedule is anchored to the base date the caller supplied: the
\* first startDate is 07:30:00 on it, and the base date never comes from the clock.
C10_AnchoredToSuppliedDate ==
    (schedPc = "returned" /\ Len(scheduledJobs) >= 1) =>
        /\ baseFrom # "clock"
        /\ SuppliedDate # <<>>
        /\ scheduledJobs[1].startDate = SubSeq(SuppliedDate, 1, 3) \o <<7, 30, 0>>

-----------------------------------------------------------------------------
(* Properties of POST /optimize-multi-day-route *)

\* the request in flight and what it was answered
Responded(r) == hPc[r] = "responded"

\* the requests a handler that never fails sends for the first days, in order
ExpectedCall(r, j) ==
    IF j % 2 = 1 THEN Call(r, "distancematrix", (j + 1) \div 2)
    ELSE Call(r, "chat", j \div 2)

\* C11: the day buckets are processed in index order, matrix request then chat
\* request then layout; a request for day N+1 is sent only when day N's two
\* requests have settled and day N is laid out; at most one request is
\* outstanding; after a step of day N has failed no request of a later day is
\* ever sent.
C11_DaysOneAfterAnother ==
    \A r \in MultiRequests :
        /\ \A j \in 1..Len(calls[r]) : calls[r][j] = ExpectedCall(r, j)
        /\ \A j \in 1..Len(calls[r]) :
              /\ Len(optimizedDays[r]) >= calls[r][j].day - 1
              /\ calls[r][j].day <= Len(jobsByDay[r])
        /\ Cardinality({c \in outstanding : c.request = r}) <= 1
        /\ \A c \in outstanding : c.request = r => c = calls[r][Len(calls[r])]
        /\ \A f \in 1..Len(failures[r]) : \A j \in 1..Len(calls[r]) :
              calls[r][j].day <= failures[r][f].day

\* day 2 of three fails after day 1 went through, and the request is answered
C11_Witness ==
    /\ MultiRequests = {1}
    /\ Responded(1)
    /\ Len(jobsByDay[1]) >= 3
    /\ Len(optimizedDays[1]) = 1
    /\ Len(failures[1]) = 1
    /\ failures[1][1].day = 2
    /\ Len(calls[1]) = 4

\* the response carries a laid-out result for each bucket of the planner
CarriesEveryDay(r, response) ==
    /\ "optimizedSchedule" \in response.fields
    /\ Len(response.optimizedSchedule) = Len(jobsByDay[r])
    /\ \A k \in 1..Len(jobsByDay[r]) :
          LET day == response.optimizedSchedule[k] IN
          /\ day.dayNumber = k
          /\ \A t \in 1..Len(day.jobs) :
                day.jobs[t].startDate # <<>> /\ day.jobs[t].endDate # <<>>

\* the handler is at a step that runs without waiting, or waits for a request
\* that is outstanding
StepPending(r) ==
    \/ hPc[r] \in {"received", "validated", "loop"}
    \/ hPc[r] = "awaitMatrix" /\ Call(r, "distancematrix", dayIndex[r] + 1) \in outstanding
    \/ hPc[r] = "awaitChat" /\ Call(r, "chat", dayIndex[r] + 1) \in outstanding

CarriesNoDay(response) ==
    /\ "optimizedSchedule" \notin response.fields
    /\ response.optimizedSchedule = <<>>
    /\ "error" \in response.fields

\* C12: a multi-day request ends with exactly one response: a success carrying
\* a laid-out result for every day bucket, or an error carrying no per-day
\* result; after a failure on some day the response is an error, whatever days
\* were optimized before.
C12_OneResponseAllOrNothing ==
    \A r \in MultiRequests :
        /\ Len(responses[r]) <= 1
        /\ Responded(r) <=> Len(responses[r]) = 1
        /\ ~Responded(r) => StepPending(r)
        /\ Responded(r) =>
              LET response == responses[r][1] IN
              /\ \/ response.status = 200 /\ CarriesEveryDay(r, response)
                 \/ response.status \in {400, 500} /\ CarriesNoDay(response)
              /\ failures[r] # <<>> => response.status = 500

\* day 3 fails when two days are optimized, and the request is answered
C12_Witness ==
    /\ MultiRequests = {1}
    /\ Responded(1)
    /\ Len(optimizedDays[1]) = 2
    /\ failures[1] # <<>>
    /\ failures[1][1].day = 3

\* the request passed validation and one of its jobs lacks coordinates
HasJobWithoutCoordinates(r) ==
    /\ MultiValidation(request[r], env)[1] = 0
    /\ \E k \in 1..Len(request[r].jobs) : MissingCoordinates(request[r].jobs[k])

\* C13: a request with a job lacking latitude/longitude is rejected before any
\* distance matrix or chat request is sent for any day, whichever bucket the
\* job falls in.
C13_NoCallBeforeCoordinateRejection ==
    \A r \in MultiRequests :
        HasJobWithoutCoordinates(r) =>
            /\ calls[r] = <<>>
            /\ Responded(r) => responses[r][1].status # 200

\* C14: every failure of a day's step (a job without coordinates, a failed
\* distance matrix request, a failed chat request, an ordering that does not
\* parse) aborts the request with an error whose message names the number of
\* the day that failed.
C14_FailureNamesDay ==
    \A r \in MultiRequests :
        \A f \in 1..Len(failures[r]) :
            /\ Responded(r)
            /\ responses[r][1].status = 500
            /\ responses[r][1].details.day = failures[r][f].day

\* the request is turned away: the planner has not run, nothing was sent to
\* the two services, and the handler is before or past its validation
TurnedAway(r) ==
    /\ plannerRuns[r] = 0
    /\ jobsByDay[r] = <<>>
    /\ calls[r] = <<>>
    /\ hPc[r] \in {"received", "responded"}
    /\ Responded(r) => responses[r][1].status # 200

\* C15: a multi-day request with more than 20 jobs is rejected with status 400
\* and the maximum-20 error before the planner runs and before any external
\* request; a request whose jobs are absent, no array or empty, or whose
\* startFromDate does not match YYYY-MM-DD, is likewise rejected before any
\* bucketing or external request.
C15_RejectedBeforePlanning ==
    \A r \in MultiRequests :
        LET req == request[r] IN
        /\ req.jobsIsArray /\ Len(req.jobs) > MaxJobsPerRequest =>
              /\ TurnedAway(r)
              /\ Responded(r) =>
                    /\ responses[r][1].status = 400
                    /\ responses[r][1].error =
                          "Maximum 20 jobs supported for multi-day optimization"
        /\ ~req.jobsIsArray \/ Len(req.jobs) = 0 => TurnedAway(r)
        /\ ~MatchesDatePattern(req.date) => TurnedAway(r)

\* a request with 21 jobs and a good date has been answered
C15_Witness ==
    /\ MultiRequests = {1}
    /\ Len(request[1].jobs) = MaxJobsPerRequest + 1
    /\ request[1].date \in StartDates
    /\ env.GOOGLE_MAPS_API_KEY
    /\ Responded(1)
    /\ responses[1][1].status = 400

-----------------------------------------------------------------------------
(* Further properties of scheduleOptimizedJobs *)

\* the lookup of the leg found no duration: a job is not in destinations, the
\* row or the element is missing, or the element has no duration
MissingEntry(e) == e.status \in {"unread", "norow", "noelement", "noduration"}

\* C16: a missing matrix entry raises no error in scheduleOptimizedJobs: the
\* leg counts 15 minutes of travel, the cursor for the next job lies 30 to 45
\* minutes after the current job's endDate (before it is rounded to the
\* quarter hour), and the layout goes on to date every remaining job (only
\* the lookup of a later leg in a row that has no elements can stop it).
C16_MissingEntryDefaults ==
    /\ \A k \in 1..Len(travelLog) :
          MissingEntry(travelLog[k][1]) =>
             /\ ~(schedPc = "threw" /\ k = Len(travelLog))
             /\ schedIdx >= k
             /\ schedIdx = k =>
                   LET sinceEnd == currentTime - StampSeconds(scheduledJobs[k].endDate)
                   IN  /\ sinceEnd = (15 + travelLog[k][2]) * 60
                       /\ sinceEnd >= 30 * 60
                       /\ sinceEnd <= 45 * 60
             /\ schedIdx > k =>
                   StampSeconds(scheduledJobs[k + 1].startDate)
                      >= StampSeconds(scheduledJobs[k].endDate) + 30 * 60
    /\ schedPc = "returned" =>
          \A j \in 1..Len(scheduledJobs) : scheduledJobs[j].endDate # <<>>

\* a leg whose next job is not among the destinations, given the longest
\* buffer, and the layout completed
C16_Witness ==
    /\ schedPc = "returned"
    /\ Len(travelLog) >= 1
    /\ travelLog[1][1] = Unread
    /\ travelLog[1][2] = 30
    /\ scheduledJobs[2].endDate # <<>>

-----------------------------------------------------------------------------
(* Further properties of POST /optimize-multi-day-route *)

IsLeapYear(y) == (y % 4 = 0 /\ y % 100 # 0) \/ y % 400 = 0

DaysInMonth(y, m) ==
    IF m = 2 THEN (IF IsLeapYear(y) THEN 29 ELSE 28)
    ELSE IF m \in {4, 6, 9, 11} THEN 30 ELSE 31

\* the calendar date after date
NextCalendarDay(date) ==
    IF date[3] < DaysInMonth(date[1], date[2]) THEN <<date[1], date[2], date[3] + 1>>
    ELSE IF date[2] < 12 THEN <<date[1], date[2] + 1, 1>>
    ELSE <<date[1] + 1, 1, 1>>

\* date advanced by k calendar days
RECURSIVE AdvancedBy(_, _)
AdvancedBy(date, k) == IF k = 0 THEN date ELSE NextCalendarDay(AdvancedBy(date, k - 1))

\* the response of a request answered with success
Succeeded(r) == Responded(r) /\ responses[r][1].status = 200

\* C17: in a successful multi-day response the entry of the bucket with
\* zero-based index k has date = startFromDate advanced by k calendar days and
\* dayNumber = k + 1.
C17_DatesAreConsecutive ==
    \A r \in MultiRequests :
        Succeeded(r) =>
            \A k \in 1..Len(responses[r][1].optimizedSchedule) :
                LET day == responses[r][1].optimizedSchedule[k] IN
                /\ day.date = AdvancedBy(request[r].date, k - 1)
                /\ day.dayNumber = k

-----------------------------------------------------------------------------
(* Properties of both routes *)

\* the chat service answered request r, for day d, with text that is no JSON
UnparseableAnswer(r, d) ==
    \E j \in 1..Len(answers[r]) :
        /\ answers[r][j].api = "chat"
        /\ answers[r][j].day = d
        /\ answers[r][j].answer.kind = "text"

\* C18: when the chat service returns text that is not parseable JSON, the
\* request fails with an error reported as "Invalid AI response format": the
\* day gets no schedule from the text, no ordering is recovered from it, and
\* the request does not succeed.
C18_UnparseableAnswerFailsRequest ==
    \A r \in DOMAIN request : \A d \in 1..(Len(jobsByDay[r]) + 1) :
        UnparseableAnswer(r, d) =>
            /\ Responded(r)
            /\ Len(responses[r]) = 1
            /\ responses[r][1].status = 500
            /\ responses[r][1].details.text = "Invalid AI response format"
            /\ responses[r][1].optimizedSchedule = <<>>
            /\ responses[r][1].optimizedRoute = <<>>
            /\ Len(optimizedDays[r]) < d

\* the chat answer of day 2 of a multi-day request did not parse
C18_Witness ==
    /\ DOMAIN request = {1}
    /\ request[1].endpoint = "/optimize-multi-day-route"
    /\ UnparseableAnswer(1, 2)
    /\ Len(optimizedDays[1]) = 1
    /\ Responded(1)

-----------------------------------------------------------------------------
(* Two requests at a time *)

\* the clock of the model
TheClock == CHOOSE c \in ClockTimes : TRUE

FirstMissing(js) ==
    js[CHOOSE k \in 1..Len(js) :
          /\ MissingCoordinates(js[k])
          /\ \A j \in 1..(k - 1) : ~MissingCoordinates(js[j])].id

\* what a handler run on its own answers after the services answered `log`:
\* the days of a multi-day request from bucket k (0-based) on
RECURSIVE AloneDays(_, _, _, _, _)
AloneDays(req, byDay, k, soFar, log) ==
    LET error == "Failed to optimize multi-day route" IN
    IF k >= Len(byDay) THEN SuccessResponse(req, soFar)
    ELSE LET dayJobs == byDay[k + 1]
             rd == addDaysToDateString(req.date, k)
             dests == [j \in 1..Len(dayJobs) |-> dayJobs[j].id]
         IN
         IF \E j \in 1..Len(dayJobs) : MissingCoordinates(dayJobs[j])
         THEN ErrorResponse(error, Message("is missing location coordinates", 0,
                                           FirstMissing(dayJobs)), <<>>)
         ELSE IF log[1].answer.kind = "error"
         THEN ErrorResponse(error, Message("distance matrix request failed", 0, 0), <<>>)
         ELSE IF log[1].answer.kind # "rows"
         THEN ErrorResponse(error, Message("TypeError", 0, 0), <<>>)
         ELSE IF log[2].answer.kind = "error"
         THEN ErrorResponse(error, Message("chat request failed", 0, 0), <<>>)
         ELSE IF log[2].answer.kind = "text"
         THEN ErrorResponse(error, Message("Invalid AI response format", k + 1, 0), <<>>)
         ELSE IF log[2].answer.kind # "route"
         THEN ErrorResponse(error, Message("TypeError", 0, 0), <<>>)
         ELSE AloneDays(req, byDay, k + 1,
                 Append(soFar, OptimizedDay(rd, k,
                    scheduleOptimizedJobs(
                       OptimizedJobsRoute(dayJobs, dests, log[2].answer.optimizedRoute),
                       log[1].answer, dests, rd, TheClock, log[2].bufferMinutes),
                    log[2].answer)),
                 SubSeq(log, 3, Len(log)))

AloneMulti(req, log) ==
    LET v == MultiValidation(req, env)
        error == "Failed to optimize multi-day route"
    IN  IF v[1] = -1 THEN ErrorResponse(error, Message(v[2], 0, 0), <<>>)
        ELSE IF v[1] # 0 THEN ValidationResponse(v[1], v[2])
        ELSE IF DistributeThrows(req.jobs, JobsPerDay)
        THEN ErrorResponse(error, Message("TypeError", 0, 0), <<>>)
        ELSE AloneDays(req, distributeJobsAcrossDays(req.jobs, JobsPerDay), 0, <<>>, log)

AloneSingle(req, log) ==
    LET v == SingleValidation(req, env)
        error == "Failed to optimize route"
        dests == [j \in 1..Len(req.jobs) |-> req.jobs[j].id]
    IN  IF v[1] = -1 THEN ErrorResponse(error, Message(v[2], 0, 0), <<>>)
        ELSE IF v[1] # 0 THEN ValidationResponse(v[1], v[2])
        ELSE IF \E j \in 1..Len(req.jobs) : MissingCoordinates(req.jobs[j])
        THEN ErrorResponse(error, Message("is missing location coordinates", 0,
                                          FirstMissing(req.jobs)), <<>>)
        ELSE IF log[1].answer.kind = "error"
        THEN ErrorResponse(error, Message("distance matrix request failed", 0, 0), <<>>)
        ELSE IF log[1].answer.kind # "rows"
        THEN ErrorResponse(error, Message("TypeError", 0, 0), <<>>)
        ELSE IF log[2].answer.kind = "error"
        THEN ErrorResponse(error, Message("chat request failed", 0, 0), <<>>)
        ELSE IF log[2].answer.kind = "text"
        THEN ErrorResponse(error, Message("Invalid AI response format", 0, 0), <<>>)
        ELSE IF log[2].answer.kind # "route"
        THEN ErrorResponse(error, Message("TypeError", 0, 0), <<>>)
        ELSE SingleSuccessResponse(
                scheduleOptimizedJobs(
                   OptimizedJobsRoute(req.jobs, dests, log[2].answer.optimizedRoute),
                   log[1].answer, dests, req.date, TheClock, log[2].bufferMinutes))

AloneResponse(r) ==
    IF request[r].endpoint = "/optimize-route"
    THEN AloneSingle(request[r], answers[r])
    ELSE AloneMulti(request[r], answers[r])

\* what belongs to request r
Belongings(r) ==
    <<request[r], hPc[r], jobsByDay[r], dayIndex[r], dayLocals[r],
      optimizedDays[r], responses[r], calls[r], plannerRuns[r], failures[r],
      answers[r]>>

\* C19: two requests handled at the same time, interleaved at the awaits in
\* any order, do not interact: a step of one leaves the job list, buckets,
\* matrix, schedule and response of the other as they were, and the response
\* of each is the one it gets alone from the same answers of the services.
C19_RequestsDoNotInteract ==
    /\ [][\A r, q \in DOMAIN request :
             (r # q /\ Belongings(r)' # Belongings(r)) => Belongings(q)' = Belongings(q)]_vars
    /\ [](\A r \in DOMAIN request :
             Responded(r) => responses[r] = <<AloneResponse(r)>>)

\* two multi-day requests, one of them of two days, both answered with
\* success, an answer of one having come in while the other's request to a
\* service was outstanding
C19_Witness ==
    /\ DOMAIN request = {1, 2}
    /\ overlapped
    /\ Succeeded(1)
    /\ Succeeded(2)
    /\ Len(responses[1][1].optimizedSchedule) = 2
    /\ Len(responses[2][1].optimizedSchedule) >= 1

-----------------------------------------------------------------------------
(* Further properties of distributeJobsAcrossDays *)

\* the greedy walk is over and the balancing loop has not begun
WalkDone == distPc = "balance" /\ rebIdx = 0

\* the priority of a type as the claim gives it
StatedPriority(t) ==
    IF t = "Job on site" THEN 3 ELSE IF t = "Quote inspection" THEN 2 ELSE 1

\* the duration a job declares, in minutes
StatedDuration(job) == job.duration.hours * 60 + job.duration.minutes

\* the minutes a job counts for in a bucket
StatedMinutes(job) == IF StatedDuration(job) = 0 THEN 60 ELSE StatedDuration(job)

\* b may not stand before a: higher priority, or equal priority and longer
MustPrecede(a, b) ==
    \/ StatedPriority(a.type) > StatedPriority(b.type)
    \/ /\ StatedPriority(a.type) = StatedPriority(b.type)
       /\ StatedDuration(a) > StatedDuration(b)

RECURSIVE StatedBucketMinutes(_)
StatedBucketMinutes(bucket) ==
    IF bucket = <<>> THEN 0
    ELSE StatedMinutes(bucket[1]) + StatedBucketMinutes(Tail(bucket))

RECURSIVE StatedDistanceSum(_, _)
StatedDistanceSum(job, bucket) ==
    IF bucket = <<>> THEN 0
    ELSE Abs(job.loc - bucket[1].loc) + StatedDistanceSum(job, Tail(bucket))

\* the join test of the claim against a non-empty bucket
StatedJoinTest(job, bucket, m) ==
    /\ Len(bucket) < m
    /\ StatedBucketMinutes(bucket) + StatedMinutes(job) <= 480
    /\ StatedDistanceSum(job, bucket) <= 15 * Len(bucket)

-----------------------------------------------------------------------------
(* Further properties of the balancing loop *)

\* s without its k-th element
WithoutIndex(s, k) == SubSeq(s, 1, k - 1) \o SubSeq(s, k + 1, Len(s))

\* k-th job of the bucket, summed distance to the other jobs of the bucket
StatedSumToOthers(bucket, k) ==
    StatedDistanceSum(bucket[k], WithoutIndex(bucket, k))

\* the step moved the k-th job of bucket b to the front of bucket b + 1 and
\* nothing else, and the stated conditions for a move held
StatedMove(b, k) ==
    LET cur == days[b]
        nxt == days[b + 1]
    IN  /\ 100 * Len(cur) > 80 * maxJobsPerDay
        /\ 100 * Len(nxt) < 60 * maxJobsPerDay
        /\ \A o \in 1..Len(cur) : StatedSumToOthers(cur, k) >= StatedSumToOthers(cur, o)
        /\ StatedSumToOthers(cur, k) > 10 * (Len(cur) - 1)
        /\ days' = [days EXCEPT ![b] = WithoutIndex(cur, k),
                                ![b + 1] = <<cur[k]>> \o nxt]

\* C21: the balancing loop looks at each pair of neighbouring buckets once, in
\* increasing order, and moves at most one job per pair; a job moves only from
\* a bucket with more than 80% of maxJobsPerDay jobs to a following bucket
\* with fewer than 60% of them, and it is the job with the greatest mean
\* distance to the other jobs of its bucket, that mean being above 10 km; it
\* becomes the first job of the following bucket and no other job changes
\* bucket or relative order.
C21_BalanceOncePerPair ==
    /\ [][(distPc = "walk" /\ distPc' = "balance") => rebIdx' = 0]_vars
    /\ [][distPc = "balance" =>
            IF distPc' = "balance"
            THEN /\ rebIdx' = rebIdx + 1
                 /\ rebIdx + 2 <= Len(days)
                 /\ \/ days' = days
                    \/ \E k \in 1..Len(days[rebIdx + 1]) : StatedMove(rebIdx + 1, k)
            ELSE /\ distPc' = "returned"
                 /\ rebIdx = Len(days) - 1
                 /\ returned' = days]_vars

\* three buckets came back after the loop moved a job for one pair and, for
\* another pair, left a crowded bucket whose jobs are 8 km apart as it was
C21_Witness ==
    /\ distPc = "returned"
    /\ Len(returned) >= 3
    /\ Len(moved) = 1
    /\ \E b \in 1..(Len(returned) - 1) :
          /\ \A k \in 1..Len(moved) : moved[k][1] # b - 1
          /\ 100 * Len(returned[b]) > 80 * maxJobsPerDay
          /\ 100 * Len(returned[b + 1]) < 60 * maxJobsPerDay
          /\ \E i, j \in 1..Len(returned[b]) :
                Abs(returned[b][i].loc - returned[b][j].loc) = 8

-----------------------------------------------------------------------------
(* Properties of the schedule of a multi-day response *)

\* the ids of the jobs of s, in order
Ids(s) == [t \in 1..Len(s) |-> s[t].id]

\* t lists every element of s as often as s does
IsPermutation(t, s) ==
    /\ Len(t) = Len(s)
    /\ \A k \in 1..Len(s) : Occurrences(t, s[k]) = Occurrences(s, s[k])

\* the scheduled jobs of all the days of a schedule, one day after the other
RECURSIVE ScheduledJobs(_)
ScheduledJobs(schedule) ==
    IF schedule = <<>> THEN <<>>
    ELSE schedule[1].jobs \o ScheduledJobs(Tail(schedule))

\* C22: in a successful multi-day response, whatever route the chat service
\* answered with as parseable JSON, each day's scheduled jobs are a
\* permutation of the day's bucket, every input job is scheduled exactly once
\* over all the days, summary.totalJobs is the number of input jobs, and
\* within a day routeOrder counts 1..n in visiting order.
C22_EveryJobScheduledOnce ==
    \A r \in MultiRequests :
        Succeeded(r) =>
            LET schedule == responses[r][1].optimizedSchedule IN
            /\ Len(schedule) = Len(jobsByDay[r])
            /\ \A k \in 1..Len(schedule) :
                  /\ IsPermutation(Ids(schedule[k].jobs), Ids(jobsByDay[r][k]))
                  /\ \A t \in 1..Len(schedule[k].jobs) :
                        schedule[k].jobs[t].routeOrder = t
            /\ IsPermutation(Ids(ScheduledJobs(schedule)), Ids(request[r].jobs))
            /\ responses[r][1].summary.totalJobs = Len(request[r].jobs)

\* the calendar date of a timestamp
DateOf(stamp) == <<stamp[1], stamp[2], stamp[3]>>

\* C23: in a successful multi-day response every job of day N starts and ends
\* on day N's calendar date, and the jobs of the whole schedule follow one
\* another in time: none starts before the one before it, in its day or in the
\* day before, has ended.
C23_JobsStayInTheirDay ==
    \A r \in MultiRequests :
        Succeeded(r) =>
            LET schedule == responses[r][1].optimizedSchedule
                all == ScheduledJobs(schedule)
            IN  /\ \A k \in 1..Len(schedule) : \A t \in 1..Len(schedule[k].jobs) :
                      /\ DateOf(schedule[k].jobs[t].startDate) = schedule[k].date
                      /\ DateOf(schedule[k].jobs[t].endDate) = schedule[k].date
                /\ \A t \in 1..(Len(all) - 1) :
                      StampSeconds(all[t].endDate) <= StampSeconds(all[t + 1].startDate)

====
